---- MODULE Spec2Model ----
(***************************************************************************)
(* State-machine model of the typewriter page: the App component (card     *)
(* collection, stacking counter, console position and its drag session),   *)
(* the TypewriterConsole component (buffer, mode, the rewrite call in      *)
(* flight) and one DraggablePaper component per card (drag session,        *)
(* revealed text, reveal index, reveal timer).                             *)
(*                                                                         *)
(* Strings are sequences of one-character strings.  Every handler is one   *)
(* action.  React state updates made in a handler are committed with the   *)
(* handler, except the functional update of the revealed text, which       *)
(* React may compute when it is queued (eager state) or when the component *)
(* next renders; both outcomes are modelled.                               *)
(***************************************************************************)
EXTENDS Integers, Sequences, FiniteSets, TLC

(* ------------------------------ bounds -------------------------------- *)

\* Number of cards printed from the console in one run.
MaxCards == 2
\* Number of ids the collection's operations are called with (1..MaxIds).
MaxIds == 3
\* Number of handleFocus calls in one run.
MaxFocus == 2
\* Number of revealed-text updates that may wait for a render.
MaxQueue == 1
\* How many pointer steps an entity may drift from where it started.
MaxDrift == 1
\* Math.random() takes the values r / RandomSteps, r in 0..RandomSteps-1.
RandomSteps == 2

(* ------------------------- program constants -------------------------- *)

\* useState(10) of topZIndex and the base of zIndex={index + 10}.
BaseZ == 10
\* Width of a card; the console centres a new card on itself.
DEFAULT_CARD_WIDTH == 280
\* Delay of the first reveal timer, setTimeout(typeNextChar, 100).
StartDelay == 100

\* The browser window the page runs in.
Window == [innerWidth |-> 1024, innerHeight |-> 768]

\* TypewriterState (PRINTING is declared and never assigned).
TypewriterState == {"IDLE", "THINKING", "PRINTING"}

(* ------------------------------ inputs -------------------------------- *)

\* Texts the user types into the textarea.
Typed == { <<>>, <<" ">>, <<" ", "a">> }
\* The one text typed in the runs that are about dragging.
ShortTyped == { <<"a">> }
\* Lengths of the texts typed in the runs that are about the cadence: the
\* two of the comparison and both sides of each threshold.
CadenceLengths == {10, 50, 51, 150, 151, 300}
LongTyped == { [i \in 1..n |-> "a"] : n \in CadenceLengths }
\* Texts the rewrite service answers with (the empty answer included).
Answers == { <<>>, <<"b">> }
\* Outcomes of one call of the rewrite collaborator.
Outcomes == {"no_key", "transport_error", "answer"}
\* Rotation jitter drawn at creation, (Math.random() * 4) - 2.
Rotations == {-1, 1}
\* Pointer positions (clientX, clientY) of mouse and touch events: where a
\* pointer goes down, and where it moves to.
P0 == [x |-> 400, y |-> 300]
P1 == [x |-> 410, y |-> 330]
DownPoints == {P0}
MovePoints == {P0, P1}
\* Rotation of the cards in the runs that are about dragging.
DragRotations == {1}
\* Texts handed to onPrint by any caller (the empty text included).
Printed == { <<>>, <<"a">>, <<"a", "b">> }
\* Changes handed to onUpdate: the end of the reveal, a new position.
Updates == { [isTyping |-> FALSE], [x |-> P1.x, y |-> P1.y] }
\* What a pointer-down lands on inside a draggable root.
ConsoleTargets == {"body", "button", "textarea"}
PaperTargets == {"body", "button"}

\* Math.random() of a reveal step, in units of 1 / RandomSteps; the one
\* draw of the runs that are not about the cadence.
Randoms == 0..(RandomSteps - 1)
FixedRandoms == {0}

Ids == 1..MaxIds
\* The draggable roots: the console and the cards.
Machine == 0
Roots == Ids \cup {Machine}
NoCall == [pending |-> FALSE, inputText |-> <<>>]
Origin == [x |-> 0, y |-> 0]
NoGrab == [p |-> Origin, c |-> Origin]

VARIABLES
  cards,              \* App: PaperCardData[] in render order
  topZIndex,          \* App: the stacking counter
  machinePos,         \* App: console position
  isDraggingMachine,  \* App: console drag session active
  machineDragOffset,  \* App: console pointer-to-entity offset
  input,              \* TypewriterConsole: the text buffer
  state,              \* TypewriterConsole: the mode
  polishCall,         \* TypewriterConsole: the rewrite call in flight
  isDragging,         \* DraggablePaper[id]: drag session active
  dragOffset,         \* DraggablePaper[id]: pointer-to-card offset
  listeners,          \* window: sets of move/up listeners registered by each root
  displayedText,      \* DraggablePaper[id]: revealed text (committed)
  textIndex,          \* DraggablePaper[id]: textIndex.current
  typingTimeout,      \* DraggablePaper[id]: a reveal timer is pending
  timerDelay,         \* DraggablePaper[id]: delay of the pending timer, in 1/RandomSteps ms
  updateQueue,        \* DraggablePaper[id]: revealed-text updates not yet rendered
  effectPending,      \* DraggablePaper[id]: typing effect due after isTyping changed
  nextId,             \* ids handed out so far + 1 (crypto.randomUUID is fresh)
  grab,               \* history: pointer and card position at the card's last pick-up
  machineGrab,        \* history: pointer and console position at its last pick-up
  picked,             \* history: pick-ups of cards, most recent last
  tornDown            \* history: ids removed while still animating

appVars == <<cards, topZIndex, machinePos, isDraggingMachine, machineDragOffset>>
consoleVars == <<input, state, polishCall>>
dragVars == <<isDragging, dragOffset, listeners>>
typingVars == <<displayedText, textIndex, typingTimeout, timerDelay, updateQueue,
                effectPending>>
historyVars == <<grab, machineGrab, picked, tornDown>>
vars == <<appVars, consoleVars, dragVars, typingVars, nextId, historyVars>>

(* ----------------------------- helpers -------------------------------- *)

IsWhitespace(ch) == ch \in {" ", "\n", "\t"}

\* A trim that removes nothing.
TrimNothing(s) == s

\* String.prototype.trim
RECURSIVE TrimLeft(_)
TrimLeft(s) ==
  IF s # <<>> /\ IsWhitespace(Head(s)) THEN TrimLeft(Tail(s)) ELSE s

RECURSIVE TrimRight(_)
TrimRight(s) ==
  IF s # <<>> /\ IsWhitespace(s[Len(s)])
    THEN TrimRight(SubSeq(s, 1, Len(s) - 1))
    ELSE s

Trim(s) == TrimRight(TrimLeft(s))

\* String.prototype.charAt, 0-based; the empty string out of range
CharAt(s, i) == IF i >= 0 /\ i < Len(s) THEN <<s[i + 1]>> ELSE <<>>

IsPrefix(p, s) == Len(p) <= Len(s) /\ SubSeq(s, 1, Len(p)) = p

IdsOf(cs) == { cs[i].id : i \in 1..Len(cs) }
IndexIn(cs, id) == CHOOSE i \in 1..Len(cs) : cs[i].id = id
CardIn(cs, id) == cs[IndexIn(cs, id)]
CardIds == IdsOf(cards)
IndexOf(id) == IndexIn(cards, id)
CardOf(id) == CardIn(cards, id)

Minus(p, q) == [x |-> p.x - q.x, y |-> p.y - q.y]

Plus(p, q) == [x |-> p.x + q.x, y |-> p.y + q.y]
Abs(n) == IF n < 0 THEN -n ELSE n

(* -------------------------------- App --------------------------------- *)

\* window.innerWidth < 768 ? 350 : 440
machineWidth == IF Window.innerWidth < 768 THEN 350 ELSE 440

\* Console position after the mount effect has re-centred it.
MountedMachinePos ==
  [x |-> Window.innerWidth \div 2 - machineWidth \div 2,
   y |-> Window.innerHeight - 380]

\* Where handlePrint puts a new card when the console is at pos.
SpawnPos(pos) ==
  [x |-> pos.x + machineWidth \div 2 - DEFAULT_CARD_WIDTH \div 2,
   y |-> pos.y - 180]

\* The positions the bounded pointer steps keep an entity within.
InArea(pos, base) ==
  /\ Abs(pos.x - base.x) <= MaxDrift * Abs(P1.x - P0.x)
  /\ Abs(pos.y - base.y) <= MaxDrift * Abs(P1.y - P0.y)

\* App.handlePrint: the collection with the new card appended.
handlePrint(text, rotation) ==
  LET spawn == SpawnPos(machinePos)
      newCard == [id |-> nextId, text |-> text, x |-> spawn.x, y |-> spawn.y,
                  rotation |-> rotation, timestamp |-> nextId, isTyping |-> TRUE]
  IN  cards \o <<newCard>>

\* A merge that also stamps the card anew.
MergeAndStamp(card, updates) ==
  [f \in DOMAIN card |->
     IF f \in DOMAIN updates THEN updates[f]
     ELSE IF f = "timestamp" THEN 0 ELSE card[f]]

\* { ...card, ...updates }
Merge(card, updates) ==
  [f \in DOMAIN card |-> IF f \in DOMAIN updates THEN updates[f] ELSE card[f]]

\* An update that takes the card out and appends the merged card.
handleUpdateCardAtEnd(cs, id, updates) ==
  LET isIt(c) == c.id = id
      others(c) == c.id # id
  IN  IF SelectSeq(cs, isIt) = <<>>
        THEN cs
        ELSE SelectSeq(cs, others) \o <<Merge(Head(SelectSeq(cs, isIt)), updates)>>

\* An update that creates the card when the id is absent.
handleUpdateCardOrInsert(cs, id, updates) ==
  IF id \in { cs[i].id : i \in 1..Len(cs) }
    THEN [i \in 1..Len(cs) |-> IF cs[i].id = id THEN Merge(cs[i], updates) ELSE cs[i]]
    ELSE Append(cs, Merge([id |-> id, text |-> <<>>, x |-> 0, y |-> 0, rotation |-> 0,
                           timestamp |-> 0, isTyping |-> FALSE], updates))

\* App.handleUpdateCard
handleUpdateCard(cs, id, updates) ==
  [i \in 1..Len(cs) |-> IF cs[i].id = id THEN Merge(cs[i], updates) ELSE cs[i]]

\* A delete that drops the last card when the id is absent.
handleDeleteCardOrLast(cs, id) ==
  LET keep(c) == c.id # id
  IN  IF SelectSeq(cs, keep) = cs /\ cs # <<>>
        THEN SubSeq(cs, 1, Len(cs) - 1)
        ELSE SelectSeq(cs, keep)

\* App.handleDeleteCard
handleDeleteCard(cs, id) ==
  LET keep(c) == c.id # id IN SelectSeq(cs, keep)

\* A focus that leaves the order as it is (the second setCards missing).
handleFocusNoReorder(cs, id) == [i \in 1..Len(cs) |-> cs[i]]

\* A focus that moves the card to the front of the order.
handleFocusToFront(cs, id) ==
  LET isIt(c) == c.id = id
      others(c) == c.id # id
  IN  IF SelectSeq(cs, isIt) = <<>>
        THEN cs
        ELSE <<Head(SelectSeq(cs, isIt))>> \o SelectSeq(cs, others)

\* A focus that swaps the card with the last card.
handleFocusSwapLast(cs, id) ==
  IF id \notin { cs[i].id : i \in 1..Len(cs) }
    THEN cs
    ELSE LET k == CHOOSE i \in 1..Len(cs) : cs[i].id = id
         IN  [i \in 1..Len(cs) |->
                IF i = k THEN cs[Len(cs)] ELSE IF i = Len(cs) THEN cs[k] ELSE cs[i]]

\* App.handleFocus, the card list: the card moved to the end of the order.
handleFocus(cs, id) ==
  LET copied == [i \in 1..Len(cs) |-> cs[i]]
      isIt(c) == c.id = id
      others(c) == c.id # id
  IN  IF SelectSeq(copied, isIt) = <<>>
        THEN copied
        ELSE SelectSeq(copied, others) \o <<Head(SelectSeq(copied, isIt))>>

\* App.handleFocus, the counter: setTopZIndex(prev => prev + 1).
focusCounter(z) == z + 1

\* zIndex={index + 10}: the layer a card is rendered at (index is 0-based).
zIndex(cs, id) == (IndexIn(cs, id) - 1) + BaseZ

(* ------------------------ rewrite collaborator ------------------------ *)

\* The outcomes in which a statement of polishTextToVintage throws:
\* getClient without a key, generateContent rejecting.
Throws(outcome) == outcome \in {"no_key", "transport_error"}

\* A collaborator whose throwing statements are outside the try block.
CaughtByNothing == FALSE

\* Whether the try block encloses every statement that throws.
CaughtByTry == TRUE

\* Whether the promise polishTextToVintage returns is rejected.
Rejects(outcome) == Throws(outcome) /\ ~CaughtByTry

\* A collaborator that returns response.text with no fallback.
polishTextNoFallback(inputText, outcome, answer) ==
  IF outcome = "answer" THEN answer ELSE inputText

\* polishTextToVintage: getClient throws without a key, generateContent may
\* reject; both are caught.  Otherwise response.text || inputText.
polishTextToVintage(inputText, outcome, answer) ==
  CASE outcome = "no_key" -> inputText
    [] outcome = "transport_error" -> inputText
    [] outcome = "answer" -> IF answer # <<>> THEN answer ELSE inputText

(* ------------------------- DraggablePaper state ------------------------ *)

\* A revealed-text update, setDisplayedText(prev => prev + text.charAt(index)):
\* computed when queued (eager, the index read then) or when rendered.
EagerUpdate(i) == [eager |-> TRUE, index |-> i]
DeferredUpdate == [eager |-> FALSE, index |-> 0]

\* The revealed text after React has run the queued updates in order; an
\* update not computed eagerly reads textIndex.current at that moment.
RECURSIVE ApplyUpdates(_, _, _, _)
ApplyUpdates(prev, queue, text, current) ==
  IF queue = <<>> THEN prev
  ELSE LET u == Head(queue)
           ch == IF u.eager THEN CharAt(text, u.index) ELSE CharAt(text, current)
       IN  ApplyUpdates(prev \o ch, Tail(queue), text, current)

\* The updates React may queue for one reveal step: eager state is computed
\* only when nothing is queued on the component.
QueuedUpdates(id) ==
  IF updateQueue[id] = <<>>
    THEN {EagerUpdate(textIndex[id]), DeferredUpdate}
    ELSE {DeferredUpdate}

\* A cadence that ignores the length of the text.
DelayBoundsOneRange(length) == [minDelay |-> 30, variance |-> 50]

\* typeNextChar: minDelay and variance by data.text.length.
DelayBounds(length) ==
  IF length > 150 THEN [minDelay |-> 5, variance |-> 15]
  ELSE IF length > 50 THEN [minDelay |-> 15, variance |-> 25]
  ELSE [minDelay |-> 30, variance |-> 50]

\* Math.random() * variance + minDelay with Math.random() = r / RandomSteps,
\* in units of 1 / RandomSteps ms.
Delay(length, r) ==
  r * DelayBounds(length).variance + RandomSteps * DelayBounds(length).minDelay

\* The effect cleanup and the listener cleanup of unmounted cards, and the
\* state React drops with them.
Unmount(f, gone, blank) == [id \in Ids |-> IF id \in gone THEN blank ELSE f[id]]

(* -------------------------------- Init -------------------------------- *)

Init ==
  /\ cards = <<>>
  /\ topZIndex = BaseZ
  /\ machinePos = MountedMachinePos
  /\ isDraggingMachine = FALSE
  /\ machineDragOffset = Origin
  /\ input = <<>>
  /\ state = "IDLE"
  /\ polishCall = NoCall
  /\ isDragging = [id \in Ids |-> FALSE]
  /\ dragOffset = [id \in Ids |-> Origin]
  /\ displayedText = [id \in Ids |-> <<>>]
  /\ textIndex = [id \in Ids |-> 0]
  /\ typingTimeout = [id \in Ids |-> FALSE]
  /\ timerDelay = [id \in Ids |-> 0]
  /\ listeners = [root \in Roots |-> 0]
  /\ updateQueue = [id \in Ids |-> <<>>]
  /\ effectPending = [id \in Ids |-> FALSE]
  /\ nextId = 1
  /\ grab = [id \in Ids |-> NoGrab]
  /\ machineGrab = NoGrab
  /\ picked = <<>>
  /\ tornDown = {}

(* ------------------------- TypewriterConsole -------------------------- *)

\* Buttons that are never disabled.
ButtonAlwaysEnabled == TRUE

\* Buttons that are disabled on a blank buffer only.
ButtonEnabledWhenNotBlank == Trim(input) # <<>>

\* disabled={state !== TypewriterState.IDLE || !input.trim()}
ButtonEnabled == state = "IDLE" /\ Trim(input) # <<>>

\* textarea onChange
SetInput(v) ==
  /\ v # input
  /\ input' = v
  /\ UNCHANGED <<state, polishCall, appVars, dragVars, typingVars, nextId, historyVars>>

\* handlePolish up to the await
HandlePolish ==
  /\ ButtonEnabled
  /\ Trim(input) # <<>>
  /\ state' = "THINKING"
  /\ polishCall' = [pending |-> TRUE, inputText |-> input]
  /\ UNCHANGED <<input, appVars, dragVars, typingVars, nextId, historyVars>>

\* handlePolish after the await: setInput(polished); setState(IDLE).  Were
\* the promise rejected, the rest of handlePolish would not run.
PolishResolve(outcome, answer) ==
  /\ polishCall.pending
  /\ IF Rejects(outcome)
       THEN UNCHANGED <<input, state>>
       ELSE /\ input' = polishTextToVintage(polishCall.inputText, outcome, answer)
            /\ state' = "IDLE"
  /\ polishCall' = NoCall
  /\ UNCHANGED <<appVars, dragVars, typingVars, nextId, historyVars>>

\* The text handlePrint hands to onPrint.
PrintedText(buffer) == buffer

\* handlePrint of the console, App.handlePrint, and the mount of the new
\* card with its typing effect (isTyping is true: the reveal starts).
HandlePrint(rotation) ==
  /\ ButtonEnabled
  /\ Trim(input) # <<>>
  /\ nextId <= MaxCards
  /\ cards' = handlePrint(PrintedText(input), rotation)
  /\ input' = <<>>
  /\ nextId' = nextId + 1
  /\ displayedText' = [displayedText EXCEPT ![nextId] = <<>>]
  /\ textIndex' = [textIndex EXCEPT ![nextId] = 0]
  /\ typingTimeout' = [typingTimeout EXCEPT ![nextId] = TRUE]
  /\ timerDelay' = [timerDelay EXCEPT ![nextId] = RandomSteps * StartDelay]
  /\ UNCHANGED <<topZIndex, machinePos, isDraggingMachine, machineDragOffset,
                 state, polishCall, dragVars, updateQueue, effectPending, historyVars>>

(* --------------------------- typing effect ---------------------------- *)

\* The text the reveal timer's closure holds (data.text of the card).
ClosureText(id) == IF id \in CardIds THEN CardOf(id).text ELSE <<>>

\* typeNextChar, a reveal step: textIndex.current < data.text.length; the
\* next timer is set with a delay drawn by Math.random() = r / RandomSteps.
RevealStep(id, r) ==
  /\ typingTimeout[id]
  /\ textIndex[id] < Len(ClosureText(id))
  /\ Len(updateQueue[id]) < MaxQueue
  /\ \E u \in QueuedUpdates(id) :
       updateQueue' = [updateQueue EXCEPT ![id] = Append(@, u)]
  /\ textIndex' = [textIndex EXCEPT ![id] = @ + 1]
  /\ timerDelay' = [timerDelay EXCEPT ![id] = Delay(Len(ClosureText(id)), r)]
  /\ UNCHANGED <<displayedText, typingTimeout, effectPending, appVars, consoleVars,
                 dragVars, nextId, historyVars>>

\* typeNextChar, the last call: onUpdate(data.id, { isTyping: false })
FinishTyping(id) ==
  /\ typingTimeout[id]
  /\ textIndex[id] >= Len(ClosureText(id))
  /\ cards' = handleUpdateCard(cards, id, [isTyping |-> FALSE])
  /\ typingTimeout' = [typingTimeout EXCEPT ![id] = FALSE]
  /\ timerDelay' = [timerDelay EXCEPT ![id] = 0]
  /\ effectPending' = [effectPending EXCEPT ![id] = id \in CardIds]
  /\ UNCHANGED <<topZIndex, machinePos, isDraggingMachine, machineDragOffset,
                 displayedText, textIndex, updateQueue, consoleVars, dragVars,
                 nextId, historyVars>>

\* React renders the card and commits the queued revealed-text updates.
Render(id) ==
  /\ id \in CardIds
  /\ updateQueue[id] # <<>>
  /\ displayedText' = [displayedText EXCEPT ![id] =
       ApplyUpdates(@, updateQueue[id], CardOf(id).text, textIndex[id])]
  /\ updateQueue' = [updateQueue EXCEPT ![id] = <<>>]
  /\ UNCHANGED <<textIndex, typingTimeout, timerDelay, effectPending, appVars, consoleVars,
                 dragVars, nextId, historyVars>>

\* The revealed text once the queued updates are rendered.
Revealed(id) ==
  ApplyUpdates(displayedText[id], updateQueue[id], ClosureText(id), textIndex[id])

\* A typing effect with no else branch: the revealed text stays what the
\* reveal steps made it.
SettledTextFromSteps(id) == Revealed(id)

\* A typing effect whose else branch sets the empty text.
SettledTextBlank(id) == <<>>

\* What the typing effect sets when it runs with isTyping false.
SettledText(id) == CardOf(id).text

\* The typing effect re-run after isTyping became false: the cleanup clears
\* the (fired) timer, the else branch calls setDisplayedText(data.text).
TypingEffect(id) ==
  /\ id \in CardIds
  /\ effectPending[id]
  /\ displayedText' = [displayedText EXCEPT ![id] = SettledText(id)]
  /\ updateQueue' = [updateQueue EXCEPT ![id] = <<>>]
  /\ typingTimeout' = [typingTimeout EXCEPT ![id] = FALSE]
  /\ timerDelay' = [timerDelay EXCEPT ![id] = 0]
  /\ effectPending' = [effectPending EXCEPT ![id] = FALSE]
  /\ UNCHANGED <<textIndex, appVars, consoleVars, dragVars, nextId, historyVars>>

(* ------------------------------ dragging ------------------------------ *)

\* target.closest('button, textarea, input')
IsInteractive(target) == target \in {"button", "textarea", "input"}

\* The offset recorded at pick-up: clientX - x, clientY - y.
PickUpOffset(p, pos) == Minus(p, pos)

\* A pointer-move that takes both coordinates from the x offset.
DragPositionFromX(p, offset) == [x |-> p.x - offset.x, y |-> p.y - offset.x]

\* The position a pointer-move gives: clientX - offset.x, clientY - offset.y.
DragPosition(p, offset) == Minus(p, offset)

PosOf(card) == [x |-> card.x, y |-> card.y]

\* A listener effect that returns no cleanup.
AfterNoCleanup(n, wasDragging) == n

\* The listener sets a root has on window after the cleanup its last effect
\* run returned: that run had added one set if the root was dragging, and
\* the cleanup removes the four listeners of that run.
AfterCleanup(n, wasDragging) == IF wasDragging THEN n - 1 ELSE n

\* The listener effect, re-run when the drag state changed: the cleanup of
\* the last run, then addEventListener x 4 if dragging (the removals of the
\* else branch name this render's functions, which were never added).
ListenerEffect(n, wasDragging, dragging) ==
  IF dragging THEN AfterCleanup(n, wasDragging) + 1 ELSE AfterCleanup(n, wasDragging)

\* handleMachineMouseDown / handleMachineTouchStart
HandleMachineMouseDown(p, target) ==
  /\ IF IsInteractive(target)
       THEN UNCHANGED <<isDraggingMachine, machineDragOffset, machineGrab, listeners>>
       ELSE /\ isDraggingMachine' = TRUE
            /\ machineDragOffset' = PickUpOffset(p, machinePos)
            /\ machineGrab' = [p |-> p, c |-> machinePos]
            /\ listeners' = [listeners EXCEPT ![Machine] =
                               ListenerEffect(@, isDraggingMachine, TRUE)]
  /\ UNCHANGED <<cards, topZIndex, machinePos, consoleVars, isDragging, dragOffset,
                 typingVars, nextId, grab, picked, tornDown>>

\* Whether the card's pointer-down handler starts a drag on this target
\* (handleMouseDown / handleTouchStart look at no target).
PaperStartsDrag(target) == TRUE

\* A root that takes pointer events while it is animating too.
AlwaysTakesPointerEvents(card) == TRUE

\* The root's class: pointer-events-none while data.isTyping, else
\* pointer-events-auto.
TakesPointerEvents(card) == ~card.isTyping

\* DraggablePaper handleMouseDown / handleTouchStart on a card that takes
\* pointer events (pointer-events-none while isTyping); the delete button is
\* rendered inside the root.
HandleMouseDown(id, p, target) ==
  /\ id \in CardIds
  /\ TakesPointerEvents(CardOf(id))
  /\ topZIndex < BaseZ + MaxFocus
  /\ IF PaperStartsDrag(target)
       THEN /\ topZIndex' = focusCounter(topZIndex)
            /\ cards' = handleFocus(cards, id)
            /\ isDragging' = [isDragging EXCEPT ![id] = TRUE]
            /\ dragOffset' = [dragOffset EXCEPT ![id] = PickUpOffset(p, PosOf(CardOf(id)))]
            /\ listeners' = [listeners EXCEPT ![id] =
                               ListenerEffect(@, isDragging[id], TRUE)]
            /\ grab' = [grab EXCEPT ![id] = [p |-> p, c |-> PosOf(CardOf(id))]]
            /\ picked' = LET notIt(e) == e.id # id
                         IN  Append(SelectSeq(picked, notIt), [id |-> id, next |-> nextId])
       ELSE UNCHANGED <<topZIndex, cards, isDragging, dragOffset, listeners, grab,
                        picked>>
  /\ UNCHANGED <<machinePos, isDraggingMachine, machineDragOffset, consoleVars,
                 typingVars, nextId, machineGrab, tornDown>>

\* Move listeners that are always registered and test no drag state.
MoveEveryCard(cs, ids, p) ==
  [i \in 1..Len(cs) |->
     Merge(cs[i], [x |-> DragPosition(p, dragOffset[cs[i].id]).x,
                   y |-> DragPosition(p, dragOffset[cs[i].id]).y])]

\* The cards after every dragging card's move listener has called
\* onUpdate(data.id, { x, y }).
RECURSIVE MoveCards(_, _, _)
MoveCards(cs, ids, p) ==
  IF ids = {} THEN cs
  ELSE LET id == CHOOSE i \in ids : TRUE
           pos == DragPosition(p, dragOffset[id])
       IN  MoveCards(handleUpdateCard(cs, id, [x |-> pos.x, y |-> pos.y]),
                     ids \ {id}, p)

\* The pointer moves the model lets the user make: those that carry no
\* entity picked up at C with the pointer at P further than the area around
\* where entities start.
WithinReach(p) ==
  /\ isDraggingMachine =>
       InArea(Plus(machineGrab.c, Minus(p, machineGrab.p)), MountedMachinePos)
  /\ \A id \in Ids :
       isDragging[id] =>
         InArea(Plus(grab[id].c, Minus(p, grab[id].p)), SpawnPos(MountedMachinePos))

\* A mousemove / touchmove on window: the listeners registered by the
\* entities whose drag session is active (App.handleMouseMove and
\* DraggablePaper.handleMouseMove) run.
MouseMove(p) ==
  /\ machinePos' = IF listeners[Machine] > 0 /\ isDraggingMachine
                     THEN DragPosition(p, machineDragOffset)
                     ELSE machinePos
  /\ cards' = MoveCards(cards, {id \in Ids : listeners[id] > 0 /\ isDragging[id]}, p)
  /\ WithinReach(p)
  /\ UNCHANGED <<topZIndex, isDraggingMachine, machineDragOffset, consoleVars,
                 dragVars, typingVars, nextId, historyVars>>

\* A mouseup / touchend on window: handleMouseUp of every root that has
\* its listeners registered, and the listener effects that follow.
MouseUp ==
  /\ isDraggingMachine' = (isDraggingMachine /\ listeners[Machine] = 0)
  /\ isDragging' = [id \in Ids |-> isDragging[id] /\ listeners[id] = 0]
  /\ listeners' = [root \in Roots |->
       IF root = Machine
         THEN ListenerEffect(listeners[root], isDraggingMachine, isDraggingMachine')
         ELSE ListenerEffect(listeners[root], isDragging[root], isDragging'[root])]
  /\ UNCHANGED <<cards, topZIndex, machinePos, machineDragOffset, consoleVars,
                 dragOffset, typingVars, nextId, historyVars>>

(* ------------------------- removal of cards --------------------------- *)

\* An unmount that leaves the reveal timer running (no cleanup returned).
CleanupKeepsTimer == FALSE

\* Whether unmounting a card runs the typing effect's cleanup
\* (clearTimeout(typingTimeout.current)).
CleanupClearsTimer == TRUE

\* The components of the ids in gone unmount: effect cleanups run, state goes.
UnmountCards(gone) ==
  /\ isDragging' = Unmount(isDragging, gone, FALSE)
  /\ dragOffset' = Unmount(dragOffset, gone, Origin)
  /\ listeners' = [root \in Roots |->
       IF root \in gone
         THEN AfterCleanup(listeners[root], isDragging[root])
         ELSE listeners[root]]
  /\ displayedText' = Unmount(displayedText, gone, <<>>)
  /\ textIndex' = Unmount(textIndex, gone, 0)
  /\ typingTimeout' = IF CleanupClearsTimer
                        THEN Unmount(typingTimeout, gone, FALSE)
                        ELSE typingTimeout
  /\ timerDelay' = IF CleanupClearsTimer
                     THEN Unmount(timerDelay, gone, 0)
                     ELSE timerDelay
  /\ updateQueue' = Unmount(updateQueue, gone, <<>>)
  /\ effectPending' = Unmount(effectPending, gone, FALSE)
  /\ grab' = Unmount(grab, gone, NoGrab)
  /\ picked' = LET stays(e) == e.id \notin gone IN SelectSeq(picked, stays)
  /\ tornDown' = tornDown \cup {id \in gone : id \in CardIds /\ CardOf(id).isTyping}

\* The delete button (rendered when !data.isTyping): onDelete(data.id)
DeleteCard(id) ==
  /\ id \in CardIds
  /\ ~CardOf(id).isTyping
  /\ cards' = handleDeleteCard(cards, id)
  /\ UnmountCards({id})
  /\ UNCHANGED <<topZIndex, machinePos, isDraggingMachine, machineDragOffset,
                 consoleVars, nextId, machineGrab>>

\* A clear that does not ask.
handleClearAllUnasked(cs, confirmed) == <<>>

\* App.handleClearAll, the card list: setCards([]) if window.confirm(...)
handleClearAll(cs, confirmed) == IF confirmed THEN <<>> ELSE cs

\* handleClearAll and the unmount of the cards it removes
HandleClearAll(confirmed) ==
  /\ cards' = handleClearAll(cards, confirmed)
  /\ IF confirmed
       THEN UnmountCards(CardIds)
       ELSE UNCHANGED <<dragVars, typingVars, grab, picked, tornDown>>
  /\ UNCHANGED <<topZIndex, machinePos, isDraggingMachine, machineDragOffset,
                 consoleVars, nextId, machineGrab>>

(* ------------------ operations of the card collection ----------------- *)

\* onPrint(text) from any caller, with any text: App.handlePrint, and the
\* mount of the new card with its typing effect.
OnPrint(text, rotation) ==
  /\ nextId <= MaxIds
  /\ cards' = handlePrint(text, rotation)
  /\ nextId' = nextId + 1
  /\ displayedText' = [displayedText EXCEPT ![nextId] = <<>>]
  /\ textIndex' = [textIndex EXCEPT ![nextId] = 0]
  /\ typingTimeout' = [typingTimeout EXCEPT ![nextId] = TRUE]
  /\ timerDelay' = [timerDelay EXCEPT ![nextId] = RandomSteps * StartDelay]
  /\ UNCHANGED <<topZIndex, machinePos, isDraggingMachine, machineDragOffset,
                 consoleVars, dragVars, updateQueue, effectPending, historyVars>>

\* onFocus() of any card, with any id: App.handleFocus.
OnFocus(id) ==
  /\ topZIndex < BaseZ + MaxFocus
  /\ topZIndex' = focusCounter(topZIndex)
  /\ cards' = handleFocus(cards, id)
  /\ UNCHANGED <<machinePos, isDraggingMachine, machineDragOffset, consoleVars,
                 dragVars, typingVars, nextId, historyVars>>

\* onUpdate(id, updates) from any caller, with any id: App.handleUpdateCard,
\* and the card's typing effect is due when its isTyping changed.
OnUpdate(id, updates) ==
  /\ cards' = handleUpdateCard(cards, id, updates)
  /\ effectPending' = [effectPending EXCEPT ![id] =
       @ \/ (id \in CardIds /\ CardOf(id).isTyping # CardIn(cards', id).isTyping)]
  /\ UNCHANGED <<topZIndex, machinePos, isDraggingMachine, machineDragOffset,
                 consoleVars, dragVars, displayedText, textIndex, typingTimeout,
                 timerDelay, updateQueue, nextId, historyVars>>

\* onDelete(id) from any caller, with any id (the delete button calls it
\* from onTouchEnd and again from onClick): App.handleDeleteCard.
OnDelete(id) ==
  /\ cards' = handleDeleteCard(cards, id)
  /\ UnmountCards({id})
  /\ UNCHANGED <<topZIndex, machinePos, isDraggingMachine, machineDragOffset,
                 consoleVars, nextId, machineGrab>>

(* ------------------------------- Next --------------------------------- *)

Next ==
  \/ \E v \in Typed : SetInput(v)
  \/ HandlePolish
  \/ \E o \in Outcomes, a \in Answers : PolishResolve(o, a)
  \/ \E r \in Rotations : HandlePrint(r)
  \/ \E id \in Ids, r \in Randoms : RevealStep(id, r)
  \/ \E id \in Ids : FinishTyping(id)
  \/ \E id \in Ids : Render(id)
  \/ \E id \in Ids : TypingEffect(id)
  \/ \E p \in DownPoints, t \in ConsoleTargets : HandleMachineMouseDown(p, t)
  \/ \E id \in Ids, p \in DownPoints, t \in PaperTargets : HandleMouseDown(id, p, t)
  \/ \E p \in MovePoints : MouseMove(p)
  \/ MouseUp
  \/ \E id \in Ids : DeleteCard(id)
  \/ \E c \in BOOLEAN : HandleClearAll(c)

Spec == Init /\ [][Next]_vars

\* The reveal of cards: the console's buffer and print, the typing effect,
\* and the removal of cards.
NextReveal ==
  \/ \E v \in Typed : SetInput(v)
  \/ \E r \in Rotations : HandlePrint(r)
  \/ \E id \in Ids, r \in FixedRandoms : RevealStep(id, r)
  \/ \E id \in Ids : FinishTyping(id)
  \/ \E id \in Ids : Render(id)
  \/ \E id \in Ids : TypingEffect(id)
  \/ \E id \in Ids : DeleteCard(id)
  \/ \E c \in BOOLEAN : HandleClearAll(c)

SpecReveal == Init /\ [][NextReveal]_vars

\* The console: buffer edits, the rewrite call, print.
NextRewrite ==
  \/ \E v \in Typed : SetInput(v)
  \/ HandlePolish
  \/ \E o \in Outcomes, a \in Answers : PolishResolve(o, a)
  \/ \E r \in Rotations : HandlePrint(r)
  \/ \E c \in BOOLEAN : HandleClearAll(c)

SpecRewrite == Init /\ [][NextRewrite]_vars

\* The card collection: cards are printed and revealed, and updated and
\* deleted by id, present or absent.
NextManager ==
  \/ \E v \in Typed : SetInput(v)
  \/ \E r \in DragRotations : HandlePrint(r)
  \/ \E id \in Ids, r \in FixedRandoms : RevealStep(id, r)
  \/ \E id \in Ids : FinishTyping(id)
  \/ \E id \in Ids : Render(id)
  \/ \E id \in Ids : TypingEffect(id)
  \/ \E id \in Ids, u \in Updates : OnUpdate(id, u)
  \/ \E id \in Ids : OnDelete(id)

SpecManager == Init /\ [][NextManager]_vars

\* The cadence of the reveal: one card is printed, from an empty desk, with
\* a text of one of the lengths above, and revealed with every draw of
\* Math.random().
NextCadence ==
  \/ cards = <<>> /\ \E v \in LongTyped : SetInput(v)
  \/ cards = <<>> /\ \E r \in DragRotations : HandlePrint(r)
  \/ \E id \in Ids, r \in Randoms : RevealStep(id, r)
  \/ \E id \in Ids : FinishTyping(id)
  \/ \E id \in Ids : Render(id)
  \/ \E id \in Ids : TypingEffect(id)

SpecCadence == Init /\ [][NextCadence]_vars

\* The reveal under fair scheduling: cards of any text are printed and
\* removed; a timer that is due fires, React renders queued updates and
\* runs the effects that are due.
NextFair ==
  \/ nextId <= MaxCards /\ \E t \in Printed, r \in DragRotations : OnPrint(t, r)
  \/ \E id \in Ids, r \in FixedRandoms : RevealStep(id, r)
  \/ \E id \in Ids : FinishTyping(id)
  \/ \E id \in Ids : Render(id)
  \/ \E id \in Ids : TypingEffect(id)
  \/ \E id \in Ids : DeleteCard(id)
  \/ \E c \in BOOLEAN : HandleClearAll(c)

Fairness ==
  \A id \in Ids :
    /\ WF_vars(\E r \in FixedRandoms : RevealStep(id, r))
    /\ WF_vars(FinishTyping(id))
    /\ WF_vars(Render(id))
    /\ WF_vars(TypingEffect(id))

SpecFair == Init /\ [][NextFair]_vars /\ Fairness

\* The render order: cards are created, and focused, updated and deleted
\* by id, present or absent.
NextOrder ==
  \/ \E t \in ShortTyped, r \in DragRotations : OnPrint(t, r)
  \/ \E id \in Ids : OnFocus(id)
  \/ \E id \in Ids, u \in Updates : OnUpdate(id, u)
  \/ \E id \in Ids : OnDelete(id)

SpecOrder == Init /\ [][NextOrder]_vars

\* Dragging and stacking: cards of one short text are printed, finish
\* their reveal, and are picked up, moved, released and removed, as is the
\* console.
NextDrag ==
  \/ \E v \in ShortTyped : SetInput(v)
  \/ \E r \in DragRotations : HandlePrint(r)
  \/ \E id \in Ids, r \in FixedRandoms : RevealStep(id, r)
  \/ \E id \in Ids : FinishTyping(id)
  \/ \E id \in Ids : Render(id)
  \/ \E id \in Ids : TypingEffect(id)
  \/ \E p \in DownPoints, t \in ConsoleTargets : HandleMachineMouseDown(p, t)
  \/ \E id \in Ids, p \in DownPoints, t \in PaperTargets : HandleMouseDown(id, p, t)
  \/ \E p \in MovePoints : MouseMove(p)
  \/ MouseUp
  \/ \E id \in Ids : DeleteCard(id)
  \/ \E c \in BOOLEAN : HandleClearAll(c)

SpecDrag == Init /\ [][NextDrag]_vars

(* ============================== claims =============================== *)

Settled(id) == id \in CardIds /\ ~CardOf(id).isTyping /\ ~effectPending[id]

\* C1: a submit of a buffer that is not empty or whitespace-only is accepted
\* (in idle mode), appends exactly one card whose text is the buffer as
\* typed, leaves the existing cards as they were, and every card whose
\* animation has completed shows exactly its text.
C1_SubmitRoundTrip ==
  /\ [][\A r \in Rotations :
          /\ (ENABLED HandlePrint(r)) <=>
               (Trim(input) # <<>> /\ state = "IDLE" /\ nextId <= MaxCards)
          /\ HandlePrint(r) =>
               /\ Len(cards') = Len(cards) + 1
               /\ SubSeq(cards', 1, Len(cards)) = cards
               /\ cards'[Len(cards')].text = input
               /\ cards'[Len(cards')].id \notin CardIds]_vars
  /\ [](\A id \in Ids : Settled(id) => displayedText[id] = CardOf(id).text)

\* C1 witness: a card printed from a buffer with leading whitespace has
\* completed its animation and shows the text as typed.
C1_Witness ==
  \E id \in Ids :
    /\ Settled(id)
    /\ CardOf(id).text = <<" ", "a">>
    /\ displayedText[id] = <<" ", "a">>
    /\ textIndex[id] = 2

\* C2: while a card is animating its revealed text is a prefix of its text.
C2_RevealedIsPrefix ==
  \A id \in CardIds :
    CardOf(id).isTyping => IsPrefix(displayedText[id], CardOf(id).text)

\* C6: isTyping changes only from true to false, at a step where the
\* revealed text has reached the full text, and a card that is not typing
\* has no reveal timer pending.
C6_FlagFlipsOnceAtFullReveal ==
  [][\A id \in CardIds \cap IdsOf(cards') :
       /\ CardOf(id).isTyping # CardIn(cards', id).isTyping =>
            /\ CardOf(id).isTyping
            /\ Revealed(id) = CardOf(id).text
       /\ ~CardOf(id).isTyping =>
            /\ ~typingTimeout[id]
            /\ \A r \in Randoms : ~RevealStep(id, r)]_vars

Removed(id) == id < nextId /\ id \notin CardIds

\* C7: a removed card has no reveal timer pending, and no reveal step,
\* render of its revealed text, completion update or typing effect of it
\* occurs after the removal.
C7_NoRevealAfterRemoval ==
  [][\A id \in Ids :
       Removed(id) =>
         /\ ~typingTimeout[id]
         /\ ~typingTimeout'[id]
         /\ displayedText'[id] = displayedText[id]
         /\ updateQueue'[id] = <<>>
         /\ ~(FinishTyping(id) \/ Render(id) \/ TypingEffect(id))
         /\ \A r \in Randoms : ~RevealStep(id, r)
         /\ id \notin IdsOf(cards')]_vars

\* C7 witness: a card was removed while it was animating, another is shown.
C7_Witness == tornDown # {} /\ cards # <<>>

\* The outcomes in which the rewrite collaborator fails.
Failed(outcome, answer) ==
  outcome \in {"no_key", "transport_error"} \/ (outcome = "answer" /\ answer = <<>>)

\* C4: when a failed rewrite completes, the buffer holds what it held
\* immediately before the completion.
C4_FailedRewriteKeepsBuffer ==
  [][\A o \in Outcomes, a \in Answers :
       (Failed(o, a) /\ PolishResolve(o, a)) => input' = input]_vars

\* C3: a pointer-down on an interactive control inside a draggable root
\* (console or card) marks nothing as dragging, focuses nothing and moves
\* no card in the order.
C3_ControlStartsNoDrag ==
  [][
    /\ \A p \in DownPoints, t \in ConsoleTargets :
          (IsInteractive(t) /\ HandleMachineMouseDown(p, t)) =>
             isDraggingMachine' = isDraggingMachine
    /\ \A id \in Ids, p \in DownPoints, t \in PaperTargets :
          (IsInteractive(t) /\ HandleMouseDown(id, p, t)) =>
             /\ isDragging' = isDragging
             /\ topZIndex' = topZIndex
             /\ cards' = cards
  ]_vars

\* C5: every pointer-move of a drag session puts the entity at
\* C + (P' - P), C and P being the entity's and the pointer's position at
\* the pick-up, for the cards and for the console.
C5_DragTranslates ==
  [][\A p \in MovePoints :
       MouseMove(p) =>
         /\ \A id \in CardIds :
              isDragging[id] =>
                PosOf(CardIn(cards', id)) = Plus(grab[id].c, Minus(p, grab[id].p))
         /\ isDraggingMachine =>
              machinePos' = Plus(machineGrab.c, Minus(p, machineGrab.p))]_vars

\* C5 witness: a card and the console are in a drag session and both have
\* been moved away from where they were picked up.
C5_Witness ==
  /\ \E id \in CardIds : isDragging[id] /\ PosOf(CardOf(id)) # grab[id].c
  /\ isDraggingMachine /\ machinePos # machineGrab.c

\* The card of id is rendered at a layer above every other card's.
OnTop(cs, id) ==
  \A other \in IdsOf(cs) \ {id} : zIndex(cs, other) < zIndex(cs, id)

LastPicked == picked[Len(picked)]

\* C9 as stated: after every step the most recently picked-up card that
\* still exists is above every other card, and the counter did not decrease.
C9_LastPickedOnTop ==
  [][
    /\ picked' # <<>> => OnTop(cards', LastPicked'.id)
    /\ topZIndex' >= topZIndex
  ]_vars

\* C9 amended: after every step the most recently picked-up card that still
\* exists is above every other card that existed at that pick-up (a card
\* printed later is appended above it), and the counter did not decrease.
C9_LastPickedAboveOlder ==
  [][
    /\ picked' # <<>> =>
         \A other \in IdsOf(cards') \ {LastPicked'.id} :
            other < LastPicked'.next =>
               zIndex(cards', other) < zIndex(cards', LastPicked'.id)
    /\ topZIndex' >= topZIndex
  ]_vars

\* C9 witness: the most recently picked-up card lies above an older card
\* and below a card printed after the pick-up.
C9_Witness ==
  /\ Len(cards) = 2
  /\ picked # <<>>
  /\ LastPicked.id = cards[1].id
  /\ cards[2].id >= LastPicked.next
  /\ topZIndex > BaseZ

\* C10: focus(id) on a present card moves it to the end of the order with
\* every field of every card as before, and raises the counter by one; on
\* the card already last it leaves the collection as it was.
C10_FocusMovesToEnd ==
  [][\A id \in Ids, p \in DownPoints, t \in PaperTargets :
       HandleMouseDown(id, p, t) =>
         LET n == Len(cards)
             k == IndexOf(id)
         IN  /\ Len(cards') = n
             /\ \A i \in 1..n :
                  cards'[i] = IF i < k THEN cards[i]
                              ELSE IF i < n THEN cards[i + 1]
                              ELSE cards[k]
             /\ k = n => cards' = cards
             /\ topZIndex' = topZIndex + 1]_vars

\* C10 witness: the card picked up was already last of two cards (the only
\* pick-up so far is of the card created last).
C10_Witness ==
  /\ Len(cards) = 2
  /\ cards[1].id < cards[2].id
  /\ Len(picked) = 1
  /\ LastPicked.id = cards[2].id
  /\ topZIndex = BaseZ + 1

\* C11: a delete of a present id removes that one card and leaves the other
\* cards, their fields and their order as they were; a delete of an absent
\* id (a second delete of the same id included) leaves the collection as it
\* was.
C11_DeleteRemovesOne ==
  [][\A id \in Ids :
       (OnDelete(id) \/ DeleteCard(id)) =>
         IF id \in CardIds
           THEN /\ Len(cards') = Len(cards) - 1
                /\ \A i \in 1..Len(cards') :
                     cards'[i] = IF i < IndexOf(id) THEN cards[i] ELSE cards[i + 1]
           ELSE cards' = cards]_vars

\* C11 witness: of two cards the one printed last has been deleted, the
\* other is still shown.
C11_Witness ==
  /\ Removed(2)
  /\ CardIds = {1}
  /\ CardOf(1).text = <<" ", "a">>

\* C17: an update of a present id changes the listed fields of that card
\* and nothing else: every other field of it, every other card, the order
\* and the size of the collection stay; an update of an absent id leaves
\* the collection as it was and creates no card.
C17_UpdateMergesOne ==
  [][\A id \in Ids, u \in Updates :
       OnUpdate(id, u) =>
         /\ Len(cards') = Len(cards)
         /\ \A i \in 1..Len(cards) :
              /\ DOMAIN cards'[i] = DOMAIN cards[i]
              /\ cards[i].id # id => cards'[i] = cards[i]
              /\ cards[i].id = id =>
                   \A f \in DOMAIN cards[i] :
                     cards'[i][f] = IF f \in DOMAIN u THEN u[f] ELSE cards[i][f]
         /\ id \notin CardIds => cards' = cards]_vars

\* C17 witness: the first of two cards has been given a new position while
\* it was still animating; the second is where it was printed.
C17_Witness ==
  /\ Len(cards) = 2
  /\ cards[1].id = 1
  /\ PosOf(cards[1]) = P1
  /\ cards[1].isTyping
  /\ cards[1].text = <<" ", "a">>
  /\ PosOf(cards[2]) = SpawnPos(machinePos)

\* A buffer that is empty or holds whitespace only.
Blank(s) == \A i \in 1..Len(s) : IsWhitespace(s[i])

\* C12: a rewrite request is accepted exactly when the buffer is not blank
\* and no rewrite is in flight; an accepted request starts one collaborator
\* call on the buffer, which it leaves as it is, while none is outstanding;
\* and a response starts no further call.
C12_RewriteRejected ==
  /\ []((ENABLED HandlePolish) <=> (~Blank(input) /\ ~polishCall.pending))
  /\ [][HandlePolish =>
          /\ ~polishCall.pending
          /\ polishCall' = [pending |-> TRUE, inputText |-> input]
          /\ input' = input]_vars
  /\ [][\A o \in Outcomes, a \in Answers :
          PolishResolve(o, a) => ~polishCall'.pending]_vars

\* C12 witness: a rewrite is in flight and the buffer has been edited to
\* whitespace: both grounds for rejecting a request hold.
C12_Witness ==
  /\ polishCall = [pending |-> TRUE, inputText |-> <<" ", "a">>]
  /\ input = <<" ">>
  /\ ~ENABLED HandlePolish

\* C13: the mode is IDLE or THINKING, never PRINTING, and is THINKING
\* exactly while a collaborator call is outstanding: an accepted rewrite
\* takes it from IDLE to THINKING and every response, success or failure,
\* takes it back to IDLE.
C13_ModeReturnsToIdle ==
  /\ [](state \in {"IDLE", "THINKING"} /\ (state = "THINKING" <=> polishCall.pending))
  /\ [][HandlePolish => (state = "IDLE" /\ state' = "THINKING")]_vars
  /\ [][\A o \in Outcomes, a \in Answers :
          PolishResolve(o, a) => (state = "THINKING" /\ state' = "IDLE")]_vars

\* C13 witness: a rewritten text has been printed: the mode went to
\* THINKING, the response brought it back to IDLE, and print was accepted.
C13_Witness ==
  /\ cards # <<>>
  /\ cards[1].text = <<"b">>
  /\ state = "IDLE"

\* C16: a submit is not accepted while the buffer is blank (no card is
\* created, the buffer stays); an accepted submit creates one card and
\* leaves the buffer empty.
C16_BlankSubmitIsNoOp ==
  /\ [](Blank(input) => \A r \in Rotations : ~ENABLED HandlePrint(r))
  /\ [][\A r \in Rotations :
          HandlePrint(r) =>
            /\ ~Blank(input)
            /\ input' = <<>>
            /\ Len(cards') = Len(cards) + 1]_vars

\* C16 witness: the buffer " a" was submitted and is empty now, its card
\* the only one.
C16_Witness ==
  /\ input = <<>>
  /\ Len(cards) = 1
  /\ cards[1].text = <<" ", "a">>
  /\ nextId = 2

\* C19: the collaborator call never rejects; it returns the original input
\* text on a missing credential, a transport error and an empty response,
\* and the service's text otherwise.
C19_CollaboratorFallsBack ==
  [][\A o \in Outcomes, a \in Answers :
       PolishResolve(o, a) =>
         /\ ~Rejects(o)
         /\ input' = IF Failed(o, a) THEN polishCall.inputText ELSE a]_vars

\* C19 witness: the service's text has replaced the buffer and no call is
\* outstanding.
C19_Witness ==
  /\ input = <<"b">>
  /\ polishCall = NoCall
  /\ cards = <<>>

\* C14: a card's position changes only in a pointer-move step taken while
\* that card's drag session is active; a pointer-move with no session
\* active changes no position, of card or console; no other step (submit,
\* pick-up, reveal step, completion, delete, clear, console pick-up,
\* release) changes the position of a card that stays.
C14_PositionOnlyWhileDragged ==
  [][
    /\ \A id \in CardIds \cap IdsOf(cards') :
          PosOf(CardIn(cards', id)) # PosOf(CardOf(id)) =>
             /\ isDragging[id]
             /\ \E p \in MovePoints : MouseMove(p)
    /\ \A p \in MovePoints :
          (MouseMove(p) /\ ~isDraggingMachine /\ \A id \in Ids : ~isDragging[id]) =>
             (cards' = cards /\ machinePos' = machinePos)
  ]_vars

\* C14 witness: of two cards one is in a drag session and has been moved,
\* the other, not dragged, is where it was printed, while the console is
\* being dragged too and has moved.
C14_Witness ==
  /\ Len(cards) = 2
  /\ isDragging[cards[2].id]
  /\ PosOf(cards[2]) # grab[cards[2].id].c
  /\ ~isDragging[cards[1].id]
  /\ PosOf(cards[1]) = SpawnPos(MountedMachinePos)
  /\ isDraggingMachine
  /\ machinePos # MountedMachinePos

\* C15: a clear with the prompt declined leaves the collection, contents
\* and order, as it was; with the prompt accepted it leaves the collection
\* empty, whether the cards were animating or being dragged.
C15_ClearAllAsksFirst ==
  [][\A c \in BOOLEAN :
       HandleClearAll(c) => cards' = IF c THEN <<>> ELSE cards]_vars

\* C15 witness: two cards were printed and one had been picked up; an
\* accepted clear removed a card that was still animating and left nothing.
C15_Witness ==
  /\ cards = <<>>
  /\ nextId = 3
  /\ tornDown # {}
  /\ topZIndex > BaseZ

\* C20: every draggable root has one set of window listeners registered
\* while its drag session is active and none otherwise; a removed card has
\* none.
C20_ListenersWhileDragging ==
  /\ listeners[Machine] = IF isDraggingMachine THEN 1 ELSE 0
  /\ \A id \in Ids :
       listeners[id] = IF id \in CardIds /\ isDragging[id] THEN 1 ELSE 0

\* C20 witness: after two pick-ups of cards, the first card has been
\* removed and has no listener; the second card and the console are being
\* dragged, each with one set registered.
C20_Witness ==
  /\ Removed(1)
  /\ listeners[1] = 0
  /\ 2 \in CardIds
  /\ isDragging[2]
  /\ listeners[2] = 1
  /\ isDraggingMachine
  /\ listeners[Machine] = 1
  /\ topZIndex = BaseZ + 2

\* Twice the mean of the range the delays for a text of this length are
\* drawn from, [minDelay, minDelay + variance).
MeanTimes2(length) ==
  2 * DelayBounds(length).minDelay + DelayBounds(length).variance

C21_NextStepAfterCommit ==
  \A id \in Ids :
    /\ typingTimeout[id] => id \in CardIds
    /\ (typingTimeout[id] /\ textIndex[id] > 0) => updateQueue[id] = <<>>

\* C22: with timers that fire, renders and effects that run, every card in
\* the collection is eventually removed or has isTyping false and shows
\* its full text, whatever the length of the text.
C22_EveryCardSettles ==
  \A id \in Ids :
    (id \in CardIds) ~>
      (id \notin CardIds \/ (Settled(id) /\ displayedText[id] = CardOf(id).text))

\* C22 witness: a card of the empty text and a card of a one-character
\* text have both finished and show their texts.
C22_Witness ==
  /\ Len(cards) = 2
  /\ cards[1].text = <<>>
  /\ cards[2].text = <<"a">>
  /\ \A i \in 1..2 : Settled(cards[i].id) /\ displayedText[cards[i].id] = cards[i].text

\* C23: in a step taken while a card is animating, that card is not picked
\* up (no focus, no drag session), is not deleted by its button and keeps
\* its position; if the step removes it, the step is a confirmed clear.
C23_AnimatingCardIsInert ==
  [][\A id \in CardIds :
       CardOf(id).isTyping =>
         /\ \A p \in DownPoints, t \in PaperTargets : ~HandleMouseDown(id, p, t)
         /\ ~DeleteCard(id)
         /\ ~isDragging[id]
         /\ ~isDragging'[id]
         /\ id \in IdsOf(cards') => PosOf(CardIn(cards', id)) = PosOf(CardOf(id))
         /\ id \notin IdsOf(cards') => HandleClearAll(TRUE)]_vars

\* C23 witness: a card is animating, its first character revealed, where
\* it was printed, while the other card is being dragged and has moved.
C23_Witness ==
  /\ Len(cards) = 2
  /\ cards[1].isTyping
  /\ textIndex[cards[1].id] = 1
  /\ PosOf(cards[1]) = SpawnPos(MountedMachinePos)
  /\ isDragging[cards[2].id]
  /\ PosOf(cards[2]) # grab[cards[2].id].c
  /\ ~isDraggingMachine

\* C24: while a rewrite is in flight no submit is accepted: in a step taken
\* in THINKING mode no card is created, and the buffer changes only by an
\* edit of the user or by the completion of the rewrite.
C24_NoSubmitWhileRewriting ==
  /\ [](state = "THINKING" => \A r \in Rotations : ~ENABLED HandlePrint(r))
  /\ [][state = "THINKING" =>
          /\ \A r \in Rotations : ~HandlePrint(r)
          /\ Len(cards') <= Len(cards)
          /\ input' # input =>
               \/ \E v \in Typed : SetInput(v)
               \/ \E o \in Outcomes, a \in Answers : PolishResolve(o, a)]_vars

\* C24 witness: a rewrite is in flight on a buffer that is not blank, with
\* a card printed before it on the desk.
C24_Witness ==
  /\ state = "THINKING"
  /\ polishCall.pending
  /\ input = <<" ", "a">>
  /\ Len(cards) = 1

\* C25: the ids of the cards in the collection are pairwise distinct, and
\* no step changes the id, text, rotation or timestamp of a card that is in
\* the collection before and after it.
C25_IdentityIsFixed ==
  /\ [](\A i, j \in 1..Len(cards) : cards[i].id = cards[j].id => i = j)
  /\ [][\A i \in 1..Len(cards), j \in 1..Len(cards') :
          cards'[j].id = cards[i].id =>
            /\ cards'[j].text = cards[i].text
            /\ cards'[j].rotation = cards[i].rotation
            /\ cards'[j].timestamp = cards[i].timestamp]_vars

\* C25 witness: the second card has been revealed, picked up and moved and
\* the first deleted; the second still has the id, text, rotation and
\* timestamp it was printed with.
C25_Witness ==
  /\ Removed(1)
  /\ CardIds = {2}
  /\ ~CardOf(2).isTyping
  /\ isDragging[2]
  /\ PosOf(CardOf(2)) # grab[2].c
  /\ CardOf(2).text = <<"a">>
  /\ CardOf(2).rotation = 1
  /\ CardOf(2).timestamp = 2

\* The ids of the cards other than id, in render order.
OthersOrder(cs, id) ==
  LET others(c) == c.id # id
      rest == SelectSeq(cs, others)
  IN  [i \in 1..Len(rest) |-> rest[i].id]

\* C26: a focus, a delete and an update of an id, present or absent, leave
\* the cards other than that id in the order they were in; a focus and an
\* update leave the set of ids and the size of the collection as they were.
C26_OrderOfOthersKept ==
  [][\A id \in Ids :
       /\ (OnFocus(id) \/ OnDelete(id) \/ \E u \in Updates : OnUpdate(id, u)) =>
            OthersOrder(cards', id) = OthersOrder(cards, id)
       /\ (OnFocus(id) \/ \E u \in Updates : OnUpdate(id, u)) =>
            /\ IdsOf(cards') = CardIds
            /\ Len(cards') = Len(cards)]_vars

\* C26 witness: of three cards the first has been focused: it is last, the
\* other two in the order they were printed in.
C26_Witness ==
  /\ Len(cards) = 3
  /\ cards[1].id = 2
  /\ cards[2].id = 3
  /\ cards[3].id = 1
  /\ topZIndex = BaseZ + 1

====
